---- MODULE Spec2Model ----
(***************************************************************************)
(* Articles model of nc-news (models/articles.models.js): fetchArticles,   *)
(* fetchArticleById and updateArticleById over a relational store of       *)
(* articles, comments and topics, and the getArticles handler in front of  *)
(* fetchArticles.                                                          *)
(*                                                                         *)
(* Text that arrives from a request (topic, sort_by, order, article_id,    *)
(* inc_votes) is a sequence of one-character strings, so that              *)
(* toLowerCase / toUpperCase and the storage engine's integer parser are   *)
(* computed character by character.  An optional argument is <<>> when it  *)
(* is undefined and <<text>> when it is given.  Text that the program      *)
(* itself owns (column names, topic slugs, messages) is a TLA+ string;     *)
(* Join turns request text into that form.                                 *)
(***************************************************************************)
EXTENDS Integers, Sequences, FiniteSets, TLC

VARIABLES
    articles,       \* the articles table: article_id -> row
    comments,       \* the comments table: comment_id -> article_id
    nextCommentId,  \* the comments table's serial
    topics,         \* the topics table: the slugs stored
    applied,        \* per stored article: the sum of the deltas its UPDATEs were given
    inflight,       \* per client: an updateArticleById call between its two queries
    resp            \* the call that completed last: arguments, outcome, queries issued

vars == <<articles, comments, nextCommentId, topics, applied, inflight, resp>>

(***************************************************************************)
(* Bounds of the model.                                                    *)
(***************************************************************************)
MaxComments == 3    \* highest comment_id the serial hands out
MaxVotes == 2       \* |votes| stays within this in the explored runs

(***************************************************************************)
(* JavaScript strings.                                                     *)
(***************************************************************************)
LowerAlpha ==
    <<"a","b","c","d","e","f","g","h","i","j","k","l","m",
      "n","o","p","q","r","s","t","u","v","w","x","y","z">>
UpperAlpha ==
    <<"A","B","C","D","E","F","G","H","I","J","K","L","M",
      "N","O","P","Q","R","S","T","U","V","W","X","Y","Z">>

\* U+017F LATIN SMALL LETTER LONG S: a lower-case letter outside ASCII whose
\* upper-case form is the ASCII letter S.
LongS == "U+017F"

IsUpper(c) == \E i \in 1..Len(UpperAlpha) : UpperAlpha[i] = c
IsLower(c) == \E i \in 1..Len(LowerAlpha) : LowerAlpha[i] = c
AlphaIndex(alpha, c) == CHOOSE i \in 1..Len(alpha) : alpha[i] = c

\* String.prototype.toLowerCase, one character
toLowerCaseChar(c) ==
    IF IsUpper(c) THEN LowerAlpha[AlphaIndex(UpperAlpha, c)] ELSE c

\* String.prototype.toUpperCase, one character
toUpperCaseChar(c) ==
    IF c = LongS THEN "S"
    ELSE IF IsLower(c) THEN UpperAlpha[AlphaIndex(LowerAlpha, c)] ELSE c

toLowerCase(s) == [i \in 1..Len(s) |-> toLowerCaseChar(s[i])]
toUpperCase(s) == [i \in 1..Len(s) |-> toUpperCaseChar(s[i])]

RECURSIVE Join(_)
Join(s) == IF s = <<>> THEN "" ELSE Head(s) \o Join(Tail(s))

\* optional arguments
Undefined == <<>>
Given(s) == <<s>>
IsGiven(a) == a # Undefined
\* JavaScript truthiness of an optional string: undefined and '' are falsy
Truthy(a) == IsGiven(a) /\ Len(a[1]) > 0
\* a default parameter value applies when the argument is undefined
OrDefault(a, d) == IF IsGiven(a) THEN a[1] ELSE d

(***************************************************************************)
(* The store.  The rows stand for the seeded test database the suite       *)
(* describes: article 1 has votes and a comment, article 2 has neither,    *)
(* one topic ('paper') has no article.                                     *)
(***************************************************************************)
SeedArticles ==
    (1 :> [article_id |-> 1, title |-> "Living", topic |-> "mitch",
           author |-> "butter_bridge", body |-> "text b", votes |-> 1,
           created_at |-> 3])
 @@ (2 :> [article_id |-> 2, title |-> "Sony", topic |-> "mitch",
           author |-> "icellusedkars", body |-> "text a", votes |-> 0,
           created_at |-> 1])
 @@ (3 :> [article_id |-> 3, title |-> "Cats", topic |-> "cats",
           author |-> "butter_bridge", body |-> "text b", votes |-> 0,
           created_at |-> 2])

SeedComments == (1 :> 1)

SeedTopics == {"mitch", "cats", "paper"}

\* the storage engine's ordering of text values (its collation), ascending
Collation ==
    <<"Cats", "Living", "Sony", "butter_bridge", "cats", "icellusedkars",
      "mitch", "paper", "text a", "text b">>
TextRank(t) == CHOOSE i \in 1..Len(Collation) : Collation[i] = t

Restrict(f, S) == [x \in S |-> f[x]]

(***************************************************************************)
(* Outcomes of a call: a promise resolved with a value or rejected with an *)
(* error.  An error object of the program has status and msg; an error of  *)
(* the storage engine has its SQLSTATE code.                               *)
(***************************************************************************)
NoError == [status |-> 0, msg |-> "", code |-> ""]
AppError(st, m) == [status |-> st, msg |-> m, code |-> ""]
PgError(c) == [status |-> 0, msg |-> "", code |-> c]

Resolved(v, qs) == [status |-> "resolved", value |-> v, err |-> NoError, queries |-> qs]
Rejected(e, qs) == [status |-> "rejected", value |-> <<>>, err |-> e, queries |-> qs]

(***************************************************************************)
(* fetchArticles                                                           *)
(***************************************************************************)
validTopics == {"mitch", "cats", "paper"}
validColumns ==
    {"title", "topic", "author", "body", "votes", "created_at", "article_id"}
validOrders == {"ASC", "DESC"}

DefaultSortBy == <<"c","r","e","a","t","e","d","_","a","t">>
DefaultOrder == <<"D","E","S","C">>

\* WHERE topic = $1, present only when the filter was appended
MatchingIds(q) ==
    {id \in DOMAIN articles : q.where => articles[id].topic = q.values[1]}

\* COUNT(*) in place of COUNT(comment_id): the row the LEFT JOIN keeps for an
\* article without comments is counted
CommentCountStar(id) ==
    IF {c \in DOMAIN comments : comments[c] = id} = {}
    THEN 1
    ELSE Cardinality({c \in DOMAIN comments : comments[c] = id})

\* LEFT JOIN comments USING (article_id) ... COUNT(comment_id) ... GROUP BY
\* articles.article_id: one row per article, with the number of joined comments
CommentCount(id) == Cardinality({c \in DOMAIN comments : comments[c] = id})

ListRow(id) ==
    [article_id |-> articles[id].article_id, title |-> articles[id].title,
     author |-> articles[id].author, topic |-> articles[id].topic,
     created_at |-> articles[id].created_at, votes |-> articles[id].votes,
     comment_count |-> CommentCount(id)]

\* the value ORDER BY articles.<column> compares
SortKey(id, column) ==
    IF column \in {"votes", "created_at", "article_id"}
    THEN articles[id][column]
    ELSE TextRank(articles[id][column])

\* the storage engine reads ASC / DESC as keywords, folding ASCII letters only
pgKeyword(word) == Join(toLowerCase(word))

\* every order of the ids the ORDER BY clause allows (ties in any order)
OrderedBy(ids, column, direction) ==
    {s \in [1..Cardinality(ids) -> ids] :
        /\ \A i, j \in DOMAIN s : i # j => s[i] # s[j]
        /\ \A i, j \in DOMAIN s : i < j =>
              IF pgKeyword(direction) = "desc"
              THEN SortKey(s[i], column) >= SortKey(s[j], column)
              ELSE SortKey(s[i], column) <= SortKey(s[j], column)}

\* db.query on the assembled listing query: the results the store can give
dbSelectArticles(q) ==
    IF pgKeyword(q.direction) \notin {"asc", "desc"}
    THEN {[ok |-> FALSE, rows |-> <<>>, code |-> "42601"]}
    ELSE {[ok |-> TRUE, rows |-> [i \in DOMAIN s |-> ListRow(s[i])], code |-> ""] :
             s \in OrderedBy(MatchingIds(q), q.column, q.direction)}

\* ORDER BY articles.<column> with the direction left out: ascending
ListQueryNoDirection(topic, sort_by, order) ==
    [kind |-> "SELECT articles",
     where |-> Truthy(topic),
     values |-> IF Truthy(topic) THEN <<Join(toLowerCase(topic[1]))>> ELSE <<>>,
     column |-> Join(toLowerCase(sort_by)),
     direction |-> <<"A","S","C">>]

\* queryValues.push(topic) in place of queryValues.push(lowerTopic)
ListQueryRawTopic(topic, sort_by, order) ==
    [kind |-> "SELECT articles",
     where |-> Truthy(topic),
     values |-> IF Truthy(topic) THEN <<Join(topic[1])>> ELSE <<>>,
     column |-> Join(toLowerCase(sort_by)),
     direction |-> order]

\* the query text and values fetchArticles assembles
ListQuery(topic, sort_by, order) ==
    [kind |-> "SELECT articles",
     where |-> Truthy(topic),
     values |-> IF Truthy(topic) THEN <<Join(toLowerCase(topic[1]))>> ELSE <<>>,
     column |-> Join(toLowerCase(sort_by)),
     direction |-> order]

\* fetchArticles(topic, sort_by = 'created_at', order = 'DESC'): its outcomes
fetchArticles(topic, sort_by_arg, order_arg) ==
    LET sort_by == OrDefault(sort_by_arg, DefaultSortBy)
        order == OrDefault(order_arg, DefaultOrder)
        q == ListQuery(topic, sort_by, order)
    IN  IF Truthy(topic) /\ Join(toLowerCase(topic[1])) \notin validTopics
        THEN {Rejected(AppError(400, "invalid topic query"), <<>>)}
        ELSE IF Join(toLowerCase(sort_by)) \notin validColumns
        THEN {Rejected(AppError(400, "invalid sort_by query"), <<>>)}
        ELSE IF Join(toUpperCase(order)) \notin validOrders
        THEN {Rejected(AppError(400, "order must be asc or desc"), <<>>)}
        ELSE {IF r.ok THEN Resolved(r.rows, <<q>>) ELSE Rejected(PgError(r.code), <<q>>) :
                 r \in dbSelectArticles(q)}

(***************************************************************************)
(* The storage engine's reading of a text parameter bound to an integer    *)
(* column (article_id = $1, votes + $2): an optional sign and digits, or   *)
(* the cast fails with SQLSTATE 22P02.                                     *)
(***************************************************************************)
Digits == <<"0","1","2","3","4","5","6","7","8","9">>
IsDigit(c) == \E i \in 1..Len(Digits) : Digits[i] = c
DigitValue(c) == (CHOOSE i \in 1..Len(Digits) : Digits[i] = c) - 1

Unsigned(s) == IF Len(s) > 0 /\ s[1] = "-" THEN Tail(s) ELSE s
pgIsInt(s) == Len(Unsigned(s)) > 0 /\ \A i \in 1..Len(Unsigned(s)) : IsDigit(Unsigned(s)[i])

RECURSIVE DigitsValue(_)
DigitsValue(s) ==
    IF s = <<>> THEN 0
    ELSE 10 * DigitsValue(SubSeq(s, 1, Len(s) - 1)) + DigitValue(s[Len(s)])
pgIntValue(s) ==
    IF Len(s) > 0 /\ s[1] = "-" THEN 0 - DigitsValue(Tail(s)) ELSE DigitsValue(s)

(***************************************************************************)
(* fetchArticleById                                                        *)
(***************************************************************************)
SelectById(article_id) == [kind |-> "SELECT article", values |-> <<article_id>>]

\* a text that is no integer compared as text: it matches no row
dbSelectByIdNoCast(article_id) ==
    IF pgIsInt(article_id) /\ pgIntValue(article_id) \in DOMAIN articles
    THEN [ok |-> TRUE, rows |-> <<articles[pgIntValue(article_id)]>>, code |-> ""]
    ELSE [ok |-> TRUE, rows |-> <<>>, code |-> ""]

\* SELECT * FROM articles WHERE article_id = $1: the rows, or the cast failure
dbSelectById(article_id) ==
    IF ~pgIsInt(article_id)
    THEN [ok |-> FALSE, rows |-> <<>>, code |-> "22P02"]
    ELSE IF pgIntValue(article_id) \in DOMAIN articles
    THEN [ok |-> TRUE, rows |-> <<articles[pgIntValue(article_id)]>>, code |-> ""]
    ELSE [ok |-> TRUE, rows |-> <<>>, code |-> ""]

\* .then((res) => res.rows[0]) without the test of res.rows.length
fetchArticleByIdNoCheck(article_id) ==
    LET res == dbSelectById(article_id)
        q == SelectById(article_id)
    IN  IF ~res.ok THEN Rejected(PgError(res.code), <<q>>)
        ELSE Resolved(res.rows, <<q>>)

fetchArticleById(article_id) ==
    LET res == dbSelectById(article_id)
        q == SelectById(article_id)
    IN  IF ~res.ok THEN Rejected(PgError(res.code), <<q>>)
        ELSE IF Len(res.rows) = 0
        THEN Rejected(AppError(404, "id not found"), <<q>>)
        ELSE Resolved(<<res.rows[1]>>, <<q>>)

(***************************************************************************)
(* updateArticleById: the UPDATE its first .then issues                    *)
(***************************************************************************)
UpdateVotes(article_id, inc_votes) ==
    [kind |-> "UPDATE article", values |-> <<article_id, inc_votes>>]

\* SET votes = GREATEST(votes + $2, 0)
NewVotesFloored(votes, inc) == IF votes + inc < 0 THEN 0 ELSE votes + inc

\* SET votes = $2
NewVotesAssigned(votes, inc) == inc

\* SET votes = votes + $2
NewVotes(votes, inc) == votes + inc

\* the table after UPDATE articles SET votes = votes + $2 WHERE article_id = $1
dbUpdateVotes(id, inc) ==
    IF id \in DOMAIN articles
    THEN [articles EXCEPT ![id].votes = NewVotes(@, inc)]
    ELSE articles

(***************************************************************************)
(* Calls and responses                                                     *)
(***************************************************************************)
Clients == {"c1", "c2"}

NoArgs ==
    [topic |-> Undefined, sort_by |-> Undefined, order |-> Undefined,
     limit |-> Undefined, p |-> Undefined,
     article_id |-> Undefined, inc_votes |-> Undefined,
     query |-> {}]

\* what a handler has sent on res: nothing, or a status code and a body
NothingSent == <<>>
Sent(code, body) == <<[code |-> code, body |-> body]>>

Response(op, args, outcome) ==
    [op |-> op, args |-> args, status |-> outcome.status, value |-> outcome.value,
     err |-> outcome.err, queries |-> outcome.queries, sent |-> NothingSent]

NoResponse == Response("none", NoArgs, [status |-> "none", value |-> <<>>,
                                         err |-> NoError, queries |-> <<>>])

Idle == [pc |-> "idle", article_id |-> <<>>, inc_votes |-> <<>>, queries |-> <<>>]

(***************************************************************************)
(* Request texts the model draws its arguments from.                       *)
(***************************************************************************)
Txt_mitch == <<"m","i","t","c","h">>
Txt_MiTcH == <<"M","i","T","c","H">>
Txt_paper == <<"p","a","p","e","r">>
Txt_Cats == <<"C","a","t","s">>
Txt_dogs == <<"d","o","g","s">>
Txt_empty == <<>>
Txt_title == <<"t","i","t","l","e">>
Txt_topic == <<"t","o","p","i","c">>
Txt_author == <<"a","u","t","h","o","r">>
Txt_AuThoR == <<"A","u","T","h","o","R">>
Txt_body == <<"b","o","d","y">>
Txt_votes == <<"v","o","t","e","s">>
Txt_created_at == <<"c","r","e","a","t","e","d","_","a","t">>
Txt_article_id == <<"a","r","t","i","c","l","e","_","i","d">>
Txt_banana == <<"b","a","n","a","n","a">>
Txt_asc == <<"a","s","c">>
Txt_aSc == <<"a","S","c">>
Txt_desc == <<"d","e","s","c">>
Txt_DESC == <<"D","E","S","C">>
Txt_hithere == <<"h","i","t","h","e","r","e">>
Txt_a_longs_c == <<"a", LongS, "c">>
Txt_1 == <<"1">>
Txt_2 == <<"2">>
Txt_9999 == <<"9","9","9","9">>
Txt_minus2 == <<"-","2">>
Txt_1_5 == <<"1",".","5">>

Opt(S) == {Undefined} \cup {Given(t) : t \in S}

ListingArgs(ts, sorts, orders, limits, pages) ==
    {[NoArgs EXCEPT !.topic = t, !.sort_by = s, !.order = o, !.limit = l, !.p = pg] :
        t \in ts, s \in sorts, o \in orders, l \in limits, pg \in pages}

\* every combination of absent / valid / invalid topic, sort_by and order
ValidationInputs ==
    ListingArgs(Opt({Txt_empty, Txt_mitch, Txt_MiTcH, Txt_paper, Txt_dogs}),
                Opt({Txt_votes, Txt_AuThoR, Txt_banana, Txt_empty}),
                Opt({Txt_asc, Txt_hithere, Txt_a_longs_c, Txt_empty}),
                {Undefined}, {Undefined})

\* every sortable column in every direction, with and without a filter
SortingInputs ==
    ListingArgs(Opt({Txt_mitch, Txt_Cats}),
                Opt({Txt_title, Txt_topic, Txt_author, Txt_AuThoR, Txt_body,
                     Txt_votes, Txt_created_at, Txt_article_id}),
                Opt({Txt_asc, Txt_aSc, Txt_desc, Txt_DESC}),
                {Undefined}, {Undefined})

\* limit and p as the listing endpoint's tests pass them
PagingInputs ==
    ListingArgs(Opt({Txt_mitch}), {Undefined}, {Undefined},
                {Undefined, Given(1), Given(2)}, {Undefined, Given(1), Given(2)})

ListingInputs == ValidationInputs \cup SortingInputs \cup PagingInputs

\* req.query of a request for the listing: its keys and their values
Txt_true == <<"t","r","u","e">>
QueryInputs ==
    {{}, {<<"banana", Txt_true>>}, {<<"topic", Txt_mitch>>}, {<<"topic", Txt_dogs>>},
     {<<"order", Txt_hithere>>}, {<<"sort_by", Txt_votes>>, <<"banana", Txt_true>>}}

\* slugs of the topics a request creates
TopicInputs == {"dogs"}

IdInputs == {Txt_1, Txt_2, Txt_9999, Txt_banana}
IncInputs == {Txt_1, Txt_minus2, Txt_banana, Txt_1_5}
DeleteInputs == {Txt_1, Txt_2}

(***************************************************************************)
(* Actions.  resp holds the outcome of one completed call until its caller *)
(* has taken it; the next call completes after that.                       *)
(***************************************************************************)
Ready == resp.op = "none"

\* the caller takes the outcome of the completed call
Return ==
    /\ ~Ready
    /\ resp' = NoResponse
    /\ UNCHANGED <<articles, comments, nextCommentId, topics, applied, inflight>>

\* a call of fetchArticles(topic, sort_by, order); limit and p are passed by
\* the caller and bound to no parameter
CallFetchArticles ==
    /\ Ready
    /\ \E a \in ListingInputs :
          \E o \in fetchArticles(a.topic, a.sort_by, a.order) :
              resp' = Response("fetchArticles", a, o)
    /\ UNCHANGED <<articles, comments, nextCommentId, topics, applied, inflight>>

\* db.query rejecting for a reason of the store's own (connection lost)
StorageDown == PgError("08006")

\* exports.getArticles: fetchArticles() is called with no argument, whatever
\* req.query holds; its .then sends 200 and the list; the chain has no .catch,
\* so a rejection sends nothing
GetArticles ==
    /\ Ready
    /\ \E query \in QueryInputs :
          \E o \in fetchArticles(Undefined, Undefined, Undefined) \cup
                    {Rejected(StorageDown,
                              <<ListQuery(Undefined, DefaultSortBy, DefaultOrder)>>)} :
              resp' = [Response("getArticles", [NoArgs EXCEPT !.query = query], o)
                          EXCEPT !.sent = IF o.status = "resolved"
                                          THEN Sent(200, [articles |-> o.value])
                                          ELSE NothingSent]
    /\ UNCHANGED <<articles, comments, nextCommentId, topics, applied, inflight>>

\* a call of fetchArticleById(article_id)
CallFetchArticleById ==
    /\ Ready
    /\ \E id \in IdInputs :
          resp' = Response("fetchArticleById", [NoArgs EXCEPT !.article_id = Given(id)],
                           fetchArticleById(id))
    /\ UNCHANGED <<articles, comments, nextCommentId, topics, applied, inflight>>

UpdateArgs(id, inc) == [NoArgs EXCEPT !.article_id = Given(id), !.inc_votes = Given(inc)]

\* the UPDATE issued whenever the existence query did not fail, found or not
UpdateCheckUnchecked(c) ==
    /\ inflight[c].pc = "idle"
    /\ \E id \in IdInputs, inc \in IncInputs :
        LET found == fetchArticleById(id) IN
        /\ IF found.status = "rejected" /\ found.err.status # 404
           THEN /\ Ready
                /\ resp' = Response("updateArticleById", UpdateArgs(id, inc), found)
                /\ UNCHANGED inflight
           ELSE /\ inflight' = [inflight EXCEPT ![c] =
                       [pc |-> "update", article_id |-> id, inc_votes |-> inc,
                        queries |-> found.queries]]
                /\ UNCHANGED resp
        /\ UNCHANGED <<articles, comments, nextCommentId, topics, applied>>

\* updateArticleById, up to the outcome of this.fetchArticleById(article_id):
\* a rejection skips both .then callbacks and is the call's outcome
UpdateCheck(c) ==
    /\ inflight[c].pc = "idle"
    /\ \E id \in IdInputs, inc \in IncInputs :
        LET found == fetchArticleById(id) IN
        /\ IF found.status = "rejected"
           THEN /\ Ready
                /\ resp' = Response("updateArticleById", UpdateArgs(id, inc), found)
                /\ UNCHANGED inflight
           ELSE /\ inflight' = [inflight EXCEPT ![c] =
                       [pc |-> "update", article_id |-> id, inc_votes |-> inc,
                        queries |-> found.queries]]
                /\ UNCHANGED resp
        /\ UNCHANGED <<articles, comments, nextCommentId, topics, applied>>

\* updateArticleById, its UPDATE ... RETURNING * and (res) => res.rows[0]
UpdateQuery(c) ==
    LET call == inflight[c]
        id == pgIntValue(call.article_id)
        qs == Append(call.queries, UpdateVotes(call.article_id, call.inc_votes))
        args == UpdateArgs(call.article_id, call.inc_votes)
    IN  /\ call.pc = "update"
        /\ Ready
        /\ inflight' = [inflight EXCEPT ![c] = Idle]
        /\ IF ~pgIsInt(call.inc_votes)
           THEN /\ resp' = Response("updateArticleById", args, Rejected(PgError("22P02"), qs))
                /\ UNCHANGED <<articles, applied>>
           ELSE /\ id \in DOMAIN articles =>
                     NewVotes(articles[id].votes, pgIntValue(call.inc_votes))
                        \in (0 - MaxVotes)..MaxVotes
                /\ articles' = dbUpdateVotes(id, pgIntValue(call.inc_votes))
                /\ applied' = IF id \in DOMAIN articles
                              THEN [applied EXCEPT ![id] = @ + pgIntValue(call.inc_votes)]
                              ELSE applied
                /\ resp' = Response("updateArticleById", args,
                                    Resolved(IF id \in DOMAIN articles
                                             THEN <<articles'[id]>> ELSE <<>>, qs))
        /\ UNCHANGED <<comments, nextCommentId, topics>>

\* removal of an article: existence is confirmed first (not found otherwise),
\* then the row goes and its comments with it, and nothing is returned
DeleteArticle ==
    /\ Ready
    /\ \E t \in DeleteInputs :
        LET id == pgIntValue(t)
            args == [NoArgs EXCEPT !.article_id = Given(t)]
        IN  IF id \in DOMAIN articles
            THEN /\ articles' = Restrict(articles, DOMAIN articles \ {id})
                 /\ applied' = Restrict(applied, DOMAIN articles \ {id})
                 /\ comments' = Restrict(comments,
                                         {c \in DOMAIN comments : comments[c] # id})
                 /\ resp' = Response("removeArticleById", args, Resolved(<<>>, <<>>))
            ELSE /\ resp' = Response("removeArticleById", args,
                                     Rejected(AppError(404, "id not found"), <<>>))
                 /\ UNCHANGED <<articles, comments, applied>>
    /\ UNCHANGED <<nextCommentId, topics, inflight>>

\* a comment posted on an existing article
InsertComment ==
    /\ Ready
    /\ nextCommentId <= MaxComments
    /\ \E id \in DOMAIN articles :
        /\ comments' = (nextCommentId :> id) @@ comments
        /\ nextCommentId' = nextCommentId + 1
        /\ resp' = Response("insertComment", NoArgs, Resolved(<<>>, <<>>))
        /\ UNCHANGED <<articles, topics, applied, inflight>>

\* a comment deleted
RemoveComment ==
    /\ Ready
    /\ \E c \in DOMAIN comments :
        /\ comments' = Restrict(comments, DOMAIN comments \ {c})
        /\ resp' = Response("removeComment", NoArgs, Resolved(<<>>, <<>>))
        /\ UNCHANGED <<articles, nextCommentId, topics, applied, inflight>>

\* a topic created: its slug joins the topics table
InsertTopic ==
    /\ Ready
    /\ \E slug \in TopicInputs \ topics :
        /\ topics' = topics \cup {slug}
        /\ resp' = Response("insertTopic", NoArgs, Resolved(<<>>, <<>>))
        /\ UNCHANGED <<articles, comments, nextCommentId, applied, inflight>>

(***************************************************************************)
(* Specifications                                                          *)
(***************************************************************************)
\* the seeded store, no call made yet
Init ==
    /\ articles = SeedArticles
    /\ comments = SeedComments
    /\ nextCommentId = 2
    /\ topics = SeedTopics
    /\ applied = [id \in DOMAIN articles |-> 0]
    /\ inflight = [c \in Clients |-> Idle]
    /\ resp = NoResponse

\* lookups, vote increments and removals by concurrent clients
Next ==
    \/ CallFetchArticleById
    \/ \E c \in Clients : UpdateCheck(c)
    \/ \E c \in Clients : UpdateQuery(c)
    \/ DeleteArticle
    \/ Return

Spec == Init /\ [][Next]_vars

\* the listing engine: any store the seed and removals leave
InitListing ==
    /\ \E S \in SUBSET (DOMAIN SeedArticles) :
          /\ articles = Restrict(SeedArticles, S)
          /\ comments = Restrict(SeedComments,
                                 {c \in DOMAIN SeedComments : SeedComments[c] \in S})
    /\ nextCommentId = 2
    /\ topics = SeedTopics
    /\ applied = [id \in DOMAIN articles |-> 0]
    /\ inflight = [c \in Clients |-> Idle]
    /\ resp = NoResponse

NextListing ==
    \/ CallFetchArticles
    \/ GetArticles
    \/ InsertTopic
    \/ InsertComment
    \/ RemoveComment
    \/ Return

SpecListing == InitListing /\ [][NextListing]_vars

(***************************************************************************)
(* Properties of fetchArticles, checked under SpecListing.                 *)
(***************************************************************************)
IsListing == resp.op = "fetchArticles"
Listed == IsListing /\ resp.status = "resolved"
ListedIds == {resp.value[i].article_id : i \in 1..Len(resp.value)}

\* the topic, sort_by and order of the completed call, as the rules read them
TopicAsked == Join(toLowerCase(resp.args.topic[1]))
ColumnAsked == Join(toLowerCase(OrDefault(resp.args.sort_by, Txt_created_at)))
OrderAsked == Join(toUpperCase(OrDefault(resp.args.order, Txt_DESC)))
InvalidTopic == IsGiven(resp.args.topic) /\ TopicAsked \notin {"mitch", "cats", "paper"}
InvalidSortBy ==
    ColumnAsked \notin
        {"title", "topic", "author", "body", "votes", "created_at", "article_id"}
InvalidOrder == OrderAsked \notin {"ASC", "DESC"}

\* C1: a call of fetchArticles with a topic whose lower-cased value is not a
\* known topic slug is rejected with status 400 and 'invalid topic query',
\* whatever sort_by and order are, and never resolves with a list.
C1_UnknownTopicRejected ==
    (IsListing /\ InvalidTopic) =>
        /\ resp.status = "rejected"
        /\ resp.err = AppError(400, "invalid topic query")

\* C2: validation fails fast in the order topic, sort_by, order: the error
\* reported is that of the first invalid parameter in this order, and a call
\* rejected by validation has issued no storage query.
C2_FirstInvalidReported ==
    IsListing =>
        /\ InvalidTopic =>
              /\ resp.status = "rejected"
              /\ resp.err = AppError(400, "invalid topic query")
        /\ (~InvalidTopic /\ InvalidSortBy) =>
              /\ resp.status = "rejected"
              /\ resp.err = AppError(400, "invalid sort_by query")
        /\ (~InvalidTopic /\ ~InvalidSortBy /\ InvalidOrder) =>
              /\ resp.status = "rejected"
              /\ resp.err = AppError(400, "order must be asc or desc")
        /\ (resp.status = "rejected" /\ resp.err.status = 400) => resp.queries = <<>>

\* the value of the asked column in the stored article behind the i-th row
ColumnValue(i) ==
    LET row == articles[resp.value[i].article_id] IN
    IF ColumnAsked \in {"votes", "created_at", "article_id"}
    THEN row[ColumnAsked]
    ELSE TextRank(row[ColumnAsked])

\* C3: the rows a listing returns are ordered by the asked column (created_at
\* when sort_by is absent), non-increasing when the upper-cased order is DESC
\* (also when order is absent) and non-decreasing when it is ASC.
C3_ListingOrdered ==
    Listed =>
        \A i, j \in 1..Len(resp.value) :
            i < j =>
                /\ OrderAsked = "DESC" => ColumnValue(i) >= ColumnValue(j)
                /\ OrderAsked = "ASC" => ColumnValue(i) <= ColumnValue(j)

\* three rows listed by votes with a mixed-case ascending order, the lowest
\* votes first and the highest last
C3_Witness ==
    /\ Listed
    /\ resp.args.sort_by = Given(Txt_votes)
    /\ resp.args.order = Given(Txt_aSc)
    /\ Len(resp.value) = 3
    /\ resp.value[1].votes < resp.value[3].votes

C4_WitnessEmpty ==
    /\ Listed
    /\ resp.args.topic = Given(Txt_paper)
    /\ resp.value = <<>>
    /\ DOMAIN articles # {}

\* C5: in every listing each row's comment_count is the number of comments
\* stored at that moment for the row's article, 0 for an article without
\* comments, and an article without comments is still listed.
C5_CommentCount ==
    Listed =>
        /\ \A i \in 1..Len(resp.value) :
              resp.value[i].comment_count =
                  Cardinality({c \in DOMAIN comments :
                                  comments[c] = resp.value[i].article_id})
        /\ resp.args.topic = Undefined =>
              \A id \in DOMAIN articles :
                  \E i \in 1..Len(resp.value) : resp.value[i].article_id = id

\* a listing after comments were added and removed: an article that had no
\* comment has two, the article that had one has none
C5_Witness ==
    /\ Listed
    /\ \E i, j \in 1..Len(resp.value) :
          /\ resp.value[i].article_id = 2 /\ resp.value[i].comment_count = 2
          /\ resp.value[j].article_id = 1 /\ resp.value[j].comment_count = 0

Min(a, b) == IF a < b THEN a ELSE b
Max(a, b) == IF a > b THEN a ELSE b

\* C6: a listing is paginated: with limit (default 10) and page (default 1)
\* the number of rows returned is min(limit, max(0, total - limit*(page-1))),
\* total being the number of stored articles that match the topic filter.
C6_Paginated ==
    Listed =>
        LET limit == OrDefault(resp.args.limit, 10)
            page == OrDefault(resp.args.p, 1)
            total == Cardinality({id \in DOMAIN articles :
                        IsGiven(resp.args.topic) => articles[id].topic = TopicAsked})
        IN  Len(resp.value) = Min(limit, Max(0, total - limit * (page - 1)))

(***************************************************************************)
(* Properties of fetchArticleById and updateArticleById, checked under     *)
(* Spec.                                                                   *)
(***************************************************************************)
IsLookup == resp.op = "fetchArticleById"
IsUpdate == resp.op = "updateArticleById"
NotFound == AppError(404, "id not found")

\* C7: fetchArticleById with an integer id resolves with the stored article
\* of that id when there is one and is rejected with 404 'id not found' when
\* there is none; it never resolves without an article.
C7_FetchById ==
    /\ (IsLookup /\ pgIsInt(resp.args.article_id[1])) =>
          IF pgIntValue(resp.args.article_id[1]) \in DOMAIN articles
          THEN /\ resp.status = "resolved"
               /\ resp.value = <<articles[pgIntValue(resp.args.article_id[1])]>>
          ELSE /\ resp.status = "rejected"
               /\ resp.err = NotFound
    /\ (IsLookup /\ resp.status = "resolved") =>
          /\ Len(resp.value) = 1
          /\ resp.value[1].article_id = pgIntValue(resp.args.article_id[1])

\* a lookup of an article that was removed before is not found
C7_Witness ==
    /\ IsLookup
    /\ resp.args.article_id = Given(Txt_2)
    /\ resp.err = NotFound
    /\ 1 \in DOMAIN articles

\* the step in which client c's UPDATE runs
UpdateRuns(c) == inflight[c].pc = "update" /\ inflight'[c].pc = "idle"
\* the step in which a call of updateArticleById ends at its existence query
UpdateEndsAtCheck ==
    resp.op = "none" /\ resp'.op = "updateArticleById" /\ inflight' = inflight

\* C8: when the UPDATE of updateArticleById runs on a stored article with an
\* integer delta d, the article's votes become the previous votes plus d (no
\* floor), the call resolves with the updated row, and every other field of
\* the article, every other article and every comment stay as they were.
C8_VoteIncrement ==
    [][\A c \in Clients :
          (/\ UpdateRuns(c)
           /\ pgIsInt(inflight[c].inc_votes)
           /\ pgIntValue(inflight[c].article_id) \in DOMAIN articles) =>
             LET id == pgIntValue(inflight[c].article_id)
                 d == pgIntValue(inflight[c].inc_votes)
             IN  /\ DOMAIN articles' = DOMAIN articles
                 /\ articles'[id].votes = articles[id].votes + d
                 /\ \A f \in DOMAIN articles[id] \ {"votes"} :
                       articles'[id][f] = articles[id][f]
                 /\ \A other \in DOMAIN articles \ {id} :
                       articles'[other] = articles[other]
                 /\ comments' = comments
                 /\ resp'.op = "updateArticleById"
                 /\ resp'.status = "resolved"
                 /\ resp'.value = <<articles'[id]>>]_vars

\* an increment took an article's votes below zero and returned that row
C8_Witness ==
    /\ IsUpdate
    /\ resp.status = "resolved"
    /\ Len(resp.value) = 1
    /\ resp.value[1].votes < 0
    /\ articles[resp.value[1].article_id].votes = resp.value[1].votes

\* C9: updateArticleById on an integer id for which no article is stored is
\* rejected with 404 'id not found' after its existence query alone (no
\* UPDATE is issued: a call goes on to its UPDATE only for a stored article),
\* and the store is left as it was.
C9_UnknownIdNotFound ==
    [][/\ \A c \in Clients :
             (inflight[c].pc = "idle" /\ inflight'[c].pc = "update") =>
                 /\ pgIsInt(inflight'[c].article_id)
                 /\ pgIntValue(inflight'[c].article_id) \in DOMAIN articles
       /\ (/\ UpdateEndsAtCheck
           /\ pgIsInt(resp'.args.article_id[1])
           /\ pgIntValue(resp'.args.article_id[1]) \notin DOMAIN articles) =>
             /\ resp'.status = "rejected"
             /\ resp'.err = NotFound
             /\ resp'.queries = <<SelectById(resp'.args.article_id[1])>>
             /\ articles' = articles
             /\ comments' = comments]_vars

\* an integer increment on an id that was never stored ended not found
C9_Witness ==
    /\ IsUpdate
    /\ resp.args.article_id = Given(Txt_9999)
    /\ resp.args.inc_votes = Given(Txt_1)
    /\ resp.err = NotFound
    /\ Len(resp.queries) = 1

BadIdentifier == (IsLookup \/ IsUpdate) /\ ~pgIsInt(resp.args.article_id[1])
BadDelta == IsUpdate /\ ~pgIsInt(resp.args.inc_votes[1])

\* C10 as stated: a vote increment whose delta is no integer, or a call whose
\* identifier is no integer, fails with the invalid-data-type error before
\* any storage access: no query was issued for it.
C10_RejectedBeforeStorage ==
    (BadIdentifier \/ BadDelta) =>
        /\ resp.status = "rejected"
        /\ resp.err = PgError("22P02")
        /\ resp.queries = <<>>

\* C10 as amended: the invalid-data-type failure is the storage engine's cast
\* failure (SQLSTATE 22P02), raised by the query that carries the value.  A
\* call whose identifier is no integer fails so on its existence query, the
\* only query it issues.  A vote increment whose delta is no integer, on an
\* integer identifier, fails so on its UPDATE, after the existence query
\* found the article; when that query finds no article the call fails with
\* 404 'id not found' instead.  In each case the store is left as it was.
C10_CastFailureFromStorage ==
    [][(resp.op = "none" /\ resp'.op \in {"fetchArticleById", "updateArticleById"}) =>
          LET id == resp'.args.article_id[1]
              badDelta == resp'.op = "updateArticleById"
                            /\ ~pgIsInt(resp'.args.inc_votes[1])
          IN  /\ ~pgIsInt(id) =>
                    /\ resp'.status = "rejected"
                    /\ resp'.err = PgError("22P02")
                    /\ resp'.queries = <<SelectById(id)>>
                    /\ articles' = articles /\ comments' = comments
              /\ (pgIsInt(id) /\ badDelta) =>
                    /\ resp'.status = "rejected"
                    /\ articles' = articles /\ comments' = comments
                    /\ IF inflight' = inflight
                       THEN /\ resp'.err = NotFound
                            /\ pgIntValue(id) \notin DOMAIN articles
                            /\ resp'.queries = <<SelectById(id)>>
                       ELSE /\ resp'.err = PgError("22P02")
                            /\ resp'.queries =
                                  <<SelectById(id),
                                    UpdateVotes(id, resp'.args.inc_votes[1])>>]_vars

\* a vote increment with a delta that is no integer failed on its UPDATE
C10_Witness ==
    /\ IsUpdate
    /\ resp.args.inc_votes = Given(Txt_banana)
    /\ resp.err = PgError("22P02")
    /\ Len(resp.queries) = 2

\* the articles of the seed that have been removed (none is created again)
RemovedIds == DOMAIN SeedArticles \ DOMAIN articles

IsGetArticles == resp.op = "getArticles"
AcceptedKeys == {"topic", "sort_by", "order", "limit", "p"}
UnknownKeyAsked == \E kv \in resp.args.query : kv[1] \notin AcceptedKeys

\* C12: a request for the listing whose query holds a key outside topic,
\* sort_by, order, limit and p is answered with an error (400 'invalid
\* query key') and with no article list.
C12_UnknownKeyRejected ==
    (IsGetArticles /\ UnknownKeyAsked) =>
        /\ resp.sent # NothingSent
        /\ resp.sent[1].code = 400

\* C13: a listing filtered by a non-empty topic that no stored article has,
\* a known slug or not, and given no sort_by and no order, resolves with the empty
\* list and is not rejected.
C13_NoMatchIsEmptyList ==
    (/\ IsListing
     /\ Truthy(resp.args.topic)
     /\ ~IsGiven(resp.args.sort_by)
     /\ ~IsGiven(resp.args.order)
     /\ \A id \in DOMAIN articles : articles[id].topic # TopicAsked) =>
        /\ resp.status = "resolved"
        /\ resp.value = <<>>

(***************************************************************************)
(* Concurrent vote increments and removals, checked under Spec.            *)
(***************************************************************************)
\* C14: when the UPDATE of updateArticleById, given an integer delta, runs
\* after the article its existence query found has been removed, the call
\* is rejected with 404 'id not found'; it does not resolve without an
\* article, and the store is left as it was.
C14_LateNotFound ==
    [][\A c \in Clients :
          (/\ UpdateRuns(c)
           /\ pgIsInt(inflight[c].inc_votes)
           /\ pgIntValue(inflight[c].article_id) \notin DOMAIN articles) =>
             /\ resp'.op = "updateArticleById"
             /\ resp'.status = "rejected"
             /\ resp'.err = NotFound
             /\ articles' = articles
             /\ comments' = comments]_vars

\* C15: every stored article's votes are its seeded votes plus the sum of
\* the deltas of the updateArticleById calls whose UPDATE ran on it, however
\* the calls' existence queries and UPDATEs interleaved; the count depends
\* on the deltas only through their sum, so d1 then d2 leaves what d1 + d2
\* leaves.
C15_NoLostIncrement ==
    \A id \in DOMAIN articles :
        articles[id].votes = SeedArticles[id].votes + applied[id]

\* a second increment of article 2 has completed while a further call on the
\* same article is between its existence query and its UPDATE
C15_Witness ==
    /\ IsUpdate
    /\ resp.status = "resolved"
    /\ resp.args.article_id = Given(Txt_2)
    /\ 2 \in DOMAIN articles
    /\ applied[2] = 2
    /\ \E c \in Clients :
          /\ inflight[c].pc = "update"
          /\ inflight[c].article_id = Txt_2
          /\ inflight[c].inc_votes = Txt_minus2

(***************************************************************************)
(* The listing endpoint's completion, the accepted topics and the query    *)
(* text, checked under SpecListing.                                        *)
(***************************************************************************)
\* C16: once the promise chain of getArticles has settled, resolved or
\* rejected, the handler has sent a response: the article list, or an error
\* when the storage query failed; no request is left unanswered.
C16_AlwaysAnswered ==
    IsGetArticles =>
        /\ resp.sent # NothingSent
        /\ resp.status = "rejected" => resp.sent[1].code >= 400

\* C17: a listing filtered by a topic whose slug is in the topics table,
\* seeded or created since, is not rejected with 'invalid topic query'.
C17_StoredTopicAccepted ==
    (/\ IsListing
     /\ Truthy(resp.args.topic)
     /\ Join(resp.args.topic[1]) \in topics) =>
        resp.err # AppError(400, "invalid topic query")

\* C18: in every query fetchArticles issues, the column in the ORDER BY is
\* one of the seven sortable columns, the direction is exactly ASC or DESC
\* in upper case, and the topic is among the values and the WHERE clause
\* only refers to it as $1.
C18_TokensFromAllowList ==
    IsListing =>
        \A i \in DOMAIN resp.queries :
            LET q == resp.queries[i] IN
            /\ q.column \in {"title", "topic", "author", "body", "votes",
                             "created_at", "article_id"}
            /\ q.direction \in {<<"A","S","C">>, <<"D","E","S","C">>}
            /\ q.where = (Len(q.values) = 1)

====
